---- MODULE Spec2Model ----
(***************************************************************************)
(* A model of the toy Angular components and of the documented utility     *)
(* classes of the interview-prep repository:                               *)
(*   - TabGroupComponent / TabComponent  (content query and activation)    *)
(*   - UserComponent                     (OnPush change detection demo)    *)
(*   - ApiService                        (users cache with a 5 min timer)  *)
(*   - RateLimiter                       (sliding window request limiter)  *)
(*   - LRUCache, CacheWithTTL            (Map based caches)                *)
(*   - pollData                          (interval polling pipeline)       *)
(*   - debounce, throttle                (timer based wrappers)            *)
(*   - FakeTodoService, StateService     (in-memory stores)                *)
(*   - LinkedList, CircularQueue         (data structures)                 *)
(***************************************************************************)
EXTENDS Integers, Sequences, FiniteSets, TLC

VARIABLES
    \* ---- TabGroupComponent + its projected TabComponents
    nTabs,        \* tabs.length: the number of projected TabComponents
    active,       \* active[i]: TabComponent.active of tab i (0-based)
    contentInit,  \* ngAfterContentInit has run
    tabError,     \* a TypeError was thrown by a tab group method
    selectLog,    \* history: the indices passed to selectTab, in order
    \* ---- UserComponent
    cmp,          \* the component's fields: userRef, userName, counter, apiData, loading
    view,         \* what the rendered view shows: name, counter, apiData, loading
    nextRef,      \* the identity the next allocated user object gets
    intervalOn,   \* the setInterval of ngOnInit is running
    userInit,     \* ngOnInit has run (the view exists and takes events)
    pendingBad,   \* promises of fetchDataBad not yet resolved
    pendingObs,   \* fetchDataWithObservable calls in flight: their timestamps, oldest first
    lastOp,       \* history: the handler that ran last
    lastManual,   \* history: that handler called markForCheck / detectChanges
    userDestroyed, \* the component has been destroyed (its view is gone)
    lastChecked,  \* history: change detection checked the component after it
    obsEmitted,   \* history: what the last step gave to subscribe(): "none", "response", "null"
    \* ---- ApiService
    apiNow,       \* the clock, in ms
    usersCache,   \* usersCache$: 0 is null, k > 0 the k-th pipeline built
    cacheBorn,    \* cacheBorn[k]: when the k-th pipeline was built (a sequence)
    apiTimers,    \* pending timer(300000) subscriptions: records [id, due]
    apiLastOp,    \* history: the ApiService step taken last
    apiReturned,  \* history: what the last getUsers call returned
    \* ---- RateLimiter
    rlMax,        \* maxRequests
    rlWindow,     \* windowMs
    rlNow,        \* Date.now()
    requests,     \* this.requests
    allowedLog,   \* history: the timestamps of the isAllowed calls that returned true
    rlLast,       \* history: what the last isAllowed call returned
    rlResets,     \* history: the number of reset() calls
    \* ---- LRUCache
    lruBuilt,     \* new LRUCache(capacity) has run
    lruCapacity,  \* this.capacity
    lruCache,     \* this.cache: the Map's entries [key, value] in insertion order
    lruUsed,      \* history: lruUsed[k] is the number of the last get hit or put of key k (0: never)
    lruClock,     \* history: the number of get and put calls so far
    lruLast,      \* history: the last call [op, key, value, result]
    \* ---- pollData
    pollSub,      \* the subscription to pollData(): "none", "active" or "completed"
    pollRetried,  \* the resubscriptions retry(2) has made
    pollInFlight, \* switchMap's inner http.get has not answered yet
    pollRequests, \* history: the number of http.get requests issued
    pollFailed,   \* history: the number of requests that failed
    pollPrev,     \* distinctUntilChanged: the value it let through last (0: none yet)
    pollOut,      \* history: what the subscriber was given, in order
    \* ---- debounce
    dbBuilt,      \* debounce(func, delay) has returned the debounced function
    dbDelay,      \* delay
    dbNow,        \* the clock, in ms
    dbTimeoutId,  \* timeoutId (0: undefined)
    dbTimers,     \* the timers setTimeout has armed and that have not fired or been cleared
    dbNextId,     \* the id the next setTimeout returns
    dbCalls,      \* history: the calls of the debounced function [t, args]
    dbInvoked,    \* history: the invocations of func [t, args, call, calls]
    \* ---- throttle
    thBuilt,      \* throttle(func, limit) has returned the throttled function
    thLimit,      \* limit
    thNow,        \* the clock, in ms
    inThrottle,   \* inThrottle (declared without a value: undefined, read as false)
    thTimers,     \* the due times of the timers armed and not yet fired
    thCalls,      \* history: the calls of the throttled function [t, args, flag]
    thExecuted,   \* history: the executions of func [t, args, call]
    \* ---- CacheWithTTL
    ttlNow,       \* Date.now()
    ttlCache,     \* this.cache: ttlCache[k] is [has, value, expiry]
    ttlWritten,   \* history: the last set of each key not followed by clear() [has, value, s, ttl]
    ttlLast,      \* history: the last call [op, key, t, had, result]
    ttlOps,       \* history: the number of calls so far
    \* ---- FakeTodoService
    todos,        \* this.todos
    todoNow,      \* Date.now()
    todoLast,     \* history: the last call [op, id, found, error]
    todoOps,      \* history: the number of calls so far
    \* ---- LinkedList
    llHead,       \* this.head: a node's number, 0 for null
    llTail,       \* this.tail: a node's number, 0 for null
    llLength,     \* this.length
    llNodes,      \* the ListNodes allocated so far: llNodes[n] is [value, next]
    \* ---- CircularQueue
    cqBuilt,      \* new CircularQueue(capacity) has run
    cqCapacity,   \* this.capacity
    cqItems,      \* this.items: index -> item, 0 for undefined or a hole
    cqFront,      \* this.front
    cqRear,       \* this.rear
    cqSize,       \* this.size
    cqFifo,       \* history: the items enqueue accepted and dequeue has not returned, oldest first
    cqLast,       \* history: the last call [op, item, result]
    cqOps,        \* history: the number of calls so far
    \* ---- StateService
    ssState,      \* state$.value: [users, selectedUserId, loading, error]
    ssPending,    \* apiService.getUsers() subscriptions that have not answered yet
    ssOps         \* history: the number of calls so far

tabVars  == <<nTabs, active, contentInit, tabError, selectLog>>
userVars == <<cmp, view, nextRef, intervalOn, userInit, userDestroyed, pendingBad, pendingObs,
              lastOp, lastManual, lastChecked, obsEmitted>>
apiVars  == <<apiNow, usersCache, cacheBorn, apiTimers, apiLastOp, apiReturned>>
rateVars == <<rlMax, rlWindow, rlNow, requests, allowedLog, rlLast, rlResets>>
lruVars == <<lruBuilt, lruCapacity, lruCache, lruUsed, lruClock, lruLast>>
pollVars == <<pollSub, pollRetried, pollInFlight, pollRequests, pollFailed, pollPrev, pollOut>>
dbVars == <<dbBuilt, dbDelay, dbNow, dbTimeoutId, dbTimers, dbNextId, dbCalls, dbInvoked>>
thVars == <<thBuilt, thLimit, thNow, inThrottle, thTimers, thCalls, thExecuted>>
ttlVars == <<ttlNow, ttlCache, ttlWritten, ttlLast, ttlOps>>
todoVars == <<todos, todoNow, todoLast, todoOps>>
llVars == <<llHead, llTail, llLength, llNodes>>
cqVars == <<cqBuilt, cqCapacity, cqItems, cqFront, cqRear, cqSize, cqFifo, cqLast, cqOps>>
ssVars == <<ssState, ssPending, ssOps>>
vars     == <<tabVars, userVars, apiVars, rateVars, lruVars, pollVars, dbVars, thVars, ttlVars, todoVars, llVars, cqVars, ssVars>>

\* What a step of one component leaves alone: the other components.
notTab == <<userVars, apiVars, rateVars, lruVars, pollVars, dbVars, thVars, ttlVars, todoVars, llVars, cqVars, ssVars>>
notUser == <<tabVars, apiVars, rateVars, lruVars, pollVars, dbVars, thVars, ttlVars, todoVars, llVars, cqVars, ssVars>>
notApi == <<tabVars, userVars, rateVars, lruVars, pollVars, dbVars, thVars, ttlVars, todoVars, llVars, cqVars, ssVars>>
notRate == <<tabVars, userVars, apiVars, lruVars, pollVars, dbVars, thVars, ttlVars, todoVars, llVars, cqVars, ssVars>>
notLru == <<tabVars, userVars, apiVars, rateVars, pollVars, dbVars, thVars, ttlVars, todoVars, llVars, cqVars, ssVars>>
notPoll == <<tabVars, userVars, apiVars, rateVars, lruVars, dbVars, thVars, ttlVars, todoVars, llVars, cqVars, ssVars>>
notDb == <<tabVars, userVars, apiVars, rateVars, lruVars, pollVars, thVars, ttlVars, todoVars, llVars, cqVars, ssVars>>
notTh == <<tabVars, userVars, apiVars, rateVars, lruVars, pollVars, dbVars, ttlVars, todoVars, llVars, cqVars, ssVars>>
notTtl == <<tabVars, userVars, apiVars, rateVars, lruVars, pollVars, dbVars, thVars, todoVars, llVars, cqVars, ssVars>>
notTodo == <<tabVars, userVars, apiVars, rateVars, lruVars, pollVars, dbVars, thVars, ttlVars, llVars, cqVars, ssVars>>
notLl == <<tabVars, userVars, apiVars, rateVars, lruVars, pollVars, dbVars, thVars, ttlVars, todoVars, cqVars, ssVars>>
notCq == <<tabVars, userVars, apiVars, rateVars, lruVars, pollVars, dbVars, thVars, ttlVars, todoVars, llVars, ssVars>>
notSs == <<tabVars, userVars, apiVars, rateVars, lruVars, pollVars, dbVars, thVars, ttlVars, todoVars, llVars, cqVars>>

(***************************************************************************)
(* Bounds of the model.                                                    *)
(***************************************************************************)
MaxTabs == 3
MaxCalls == 3
MaxRand == 1
MaxCounter == 1
MaxObjects == 2
MaxStamp == 1
MaxPending == 2
MaxPendingBad == 1
TicksPerTtl == 3
MaxTicks == 5
MaxCaches == 3
MaxRequests == 2
MaxWindow == 2
MaxNow == 4
MaxResets == 1

MaxKeys == 3
MaxVals == 2
MaxCapacity == 2
MaxLruOps == 5
MaxPollRequests == 4
MaxData == 2
\* debounce
MaxDelay == 2
MaxDbNow == 4
MaxDbCalls == 3
MaxArgs == 2
\* throttle
MaxLimit == 2
MaxThNow == 4
MaxThCalls == 3
MaxThArgs == 2
\* CacheWithTTL
MaxTtlKeys == 2
MaxTtlVals == 2
MaxTtl == 1
MaxTtlNow == 2
MaxTtlOps == 3
\* FakeTodoService
MaxTodoNow == 5
MaxTodoOps == 2
\* LinkedList
MaxNodes == 4
MaxLlVals == 2
\* CircularQueue
MaxCqCapacity == 3
MaxCqVals == 2
MaxCqOps == 6
\* StateService
MaxUserId == 2
MaxUserNames == 2
MaxSsOps == 3
MaxSsPending == 2
(***************************************************************************)
(* TabComponent and TabGroupComponent.                                     *)
(***************************************************************************)
TabIndices(n) == 0 .. (n - 1)

\* The arguments selectTab is given: every index of the group, one below and
\* one above.
SelectArgs(n) == -1 .. n

\* TabComponent.activate(): this.active = true
activate(a, i) == [a EXCEPT ![i] = TRUE]

\* TabComponent.deactivate(): this.active = false
deactivate(a, i) == [a EXCEPT ![i] = FALSE]

\* A method call on the element a query or an array yields at index i: the
\* element is undefined outside the array, and a call on undefined throws.
CallActivate(a, n, i) ==
    IF i \in TabIndices(n)
    THEN [active |-> activate(a, i), error |-> FALSE]
    ELSE [active |-> a, error |-> TRUE]

\* ngAfterContentInit without its length guard: tabs.first.activate() on any group.
ngAfterContentInitUnguarded(a, n) == CallActivate(a, n, 0)

\* TabGroupComponent.ngAfterContentInit
ngAfterContentInit(a, n) ==
    IF n > 0
    THEN CallActivate(a, n, 0)
    ELSE [active |-> a, error |-> FALSE]

\* this.tabs.forEach((tab) => tab.deactivate())
RECURSIVE DeactivateFrom(_, _, _)
DeactivateFrom(a, n, i) ==
    IF i >= n THEN a ELSE DeactivateFrom(deactivate(a, i), n, i + 1)

\* selectTab that activates the selected tab without deactivating the others.
selectTabNoDeactivate(a, n, index) ==
    IF index \in TabIndices(n)
    THEN CallActivate(a, n, index)
    ELSE [active |-> a, error |-> FALSE]

\* selectTab without its test of tabsArray[index].
selectTabUnguarded(a, n, index) ==
    CallActivate(DeactivateFrom(a, n, 0), n, index)

\* selectTab that only deactivates the tabs before the selected one.
selectTabDeactivateBelow(a, n, index) ==
    IF index \in TabIndices(n)
    THEN CallActivate(DeactivateFrom(a, index, 0), n, index)
    ELSE [active |-> DeactivateFrom(a, n, 0), error |-> FALSE]

\* TabGroupComponent.selectTab(index)
selectTab(a, n, index) ==
    LET off == DeactivateFrom(a, n, 0)
    IN  IF index \in TabIndices(n)          \* if (tabsArray[index])
        THEN CallActivate(off, n, index)
        ELSE [active |-> off, error |-> FALSE]

ActiveTabs == {i \in TabIndices(nTabs) : active[i]}

\* The content hook runs once, when the projected children are known.
NgAfterContentInit ==
    /\ ~contentInit
    /\ LET r == ngAfterContentInit(active, nTabs)
       IN  /\ active' = r.active
           /\ tabError' = (tabError \/ r.error)
    /\ contentInit' = TRUE
    /\ UNCHANGED <<nTabs, selectLog>>
    /\ UNCHANGED notTab

\* A call of selectTab(index); the header buttons that call it are rendered
\* after the content hook.
SelectTab(index) ==
    /\ contentInit
    /\ Len(selectLog) < MaxCalls
    /\ LET r == selectTab(active, nTabs, index)
       IN  /\ active' = r.active
           /\ tabError' = (tabError \/ r.error)
    /\ selectLog' = Append(selectLog, index)
    /\ UNCHANGED <<nTabs, contentInit>>
    /\ UNCHANGED notTab

TabNext ==
    \/ NgAfterContentInit
    \/ \E index \in SelectArgs(nTabs) : SelectTab(index)

(***************************************************************************)
(* UserComponent under ChangeDetectionStrategy.OnPush.                     *)
(***************************************************************************)
\* Strings are pairs <<text, suffix>>: suffix 0 is the bare text, suffix r > 0
\* the text followed by the r-th value Math.random() or the clock can give.
Text(base, suffix) == <<base, suffix>>

Randoms == 1 .. MaxRand
Stamps  == 1 .. MaxStamp

JohnDoe == Text("John Doe", 0)
NewName == Text("New Name", 0)
NoData  == Text("No data", 0)

\* `Data fetched at ${new Date().toLocaleTimeString()}`
DataFetchedAt(stamp) == Text("Data fetched at", stamp)

\* The fields as the constructor leaves them.
UserComponentNew ==
    [userRef |-> 0, userName |-> JohnDoe, counter |-> 0,
     apiData |-> NoData, loading |-> FALSE]

\* A handler's result: the fields after it, and whether it called
\* cdr.markForCheck() or cdr.detectChanges().
Done(s, manual) == [state |-> s, manual |-> manual]

\* UserComponent.mutateUser: this.user.name = 'New Name' + Math.random()
mutateUser(s, rnd) ==
    Done([s EXCEPT !.userName = Text("New Name", rnd)], FALSE)

\* The setInterval callback of ngOnInit: the same in-place write.
intervalCallback(s, rnd) ==
    Done([s EXCEPT !.userName = Text("New Name", rnd)], FALSE)

\* replaceUser that writes the name into the object it already has.
replaceUserInPlace(s, ref) ==
    Done([s EXCEPT !.userName = NewName], FALSE)

\* UserComponent.replaceUser: this.user = { ...this.user, name: 'New Name' }
replaceUser(s, ref) ==
    Done([s EXCEPT !.userRef = ref, !.userName = NewName], FALSE)

\* UserComponent.incrementBad: this.counter++
incrementBad(s) ==
    Done([s EXCEPT !.counter = s.counter + 1], FALSE)

\* UserComponent.incrementGood: this.counter++ (the markForCheck call is commented out)
incrementGood(s) ==
    Done([s EXCEPT !.counter = s.counter + 1], FALSE)

\* UserComponent.fetchDataBad, the synchronous part: this.loading.set(true)
fetchDataBad(s) ==
    Done([s EXCEPT !.loading = TRUE], FALSE)

\* The promise callback with its this.loading.set(false) in place.
fetchDataBadThenResetsLoading(s, stamp) ==
    Done([s EXCEPT !.apiData = DataFetchedAt(stamp), !.loading = FALSE], FALSE)

\* The promise callback with its markForCheck call in place.
fetchDataBadThenMarked(s, stamp) ==
    Done([s EXCEPT !.apiData = DataFetchedAt(stamp)], TRUE)

\* UserComponent.fetchDataBad, the .then callback: this.apiData = `Data fetched at ...`
fetchDataBadThen(s, stamp) ==
    Done([s EXCEPT !.apiData = DataFetchedAt(stamp)], FALSE)

\* `Data: ${response.data} at ${response.timestamp}` for the response
\* { data: 'API Response', timestamp: new Date().toLocaleTimeString() }
DataApiResponseAt(stamp) == Text("Data: API Response at", stamp)

\* UserComponent.fetchDataWithObservable, the synchronous part:
\* this.loading.set(true); the observable is built with the time of the call.
fetchDataWithObservable(s) ==
    Done([s EXCEPT !.loading = TRUE], FALSE)

\* UserComponent.fetchDataWithObservable, the tap callback that runs when
\* delay(1500) delivers the response.
fetchDataWithObservableTap(s, stamp) ==
    Done([s EXCEPT !.apiData = DataApiResponseAt(stamp), !.loading = FALSE], FALSE)

\* The catchError callback that leaves loading as it is.
fetchDataWithObservableCatchErrorKeepsLoading(s) ==
    Done(s, FALSE)

\* UserComponent.fetchDataWithObservable, the catchError callback:
\* this.loading.set(false); return of(null)
fetchDataWithObservableCatchError(s) ==
    Done([s EXCEPT !.loading = FALSE], FALSE)

\* The fields tap's callback can leave behind when it throws: it threw
\* before or after its first statement, the write of apiData.  (It is the
\* only stage of the pipeline that can raise an error: of() and delay() do
\* not; a throw after loading.set(false) leaves loading false all the same.)
TapThrew(s, stamp) == {s, [s EXCEPT !.apiData = DataApiResponseAt(stamp)]}

\* OnPush without the rule for events of the component's own template.
OnPushChecksNoEvents(inputRefChanged, templateEvent, asyncPipeEmitted, manualTrigger) ==
    inputRefChanged \/ asyncPipeEmitted \/ manualTrigger

\* "OnPush triggers change detection when": an @Input() reference changes, an
\* event originates from the component, the async pipe emits, or a manual
\* trigger via ChangeDetectorRef.
OnPushChecks(inputRefChanged, templateEvent, asyncPipeEmitted, manualTrigger) ==
    inputRefChanged \/ templateEvent \/ asyncPipeEmitted \/ manualTrigger

\* What the template's bindings evaluate to.
Render(s) ==
    [name |-> s.userName, counter |-> s.counter,
     apiData |-> s.apiData, loading |-> s.loading]

\* One change detection pass over the component: its bindings are
\* re-evaluated only when the component is checked.
DetectChanges(v, s, checked) == IF checked THEN Render(s) ELSE v

\* A handler ran (result r) and the change detection pass that follows it.
\* user is no @Input() and the template has no async pipe.
Handled(op, r, fromTemplate) ==
    /\ cmp' = r.state
    /\ lastOp' = op
    /\ lastManual' = r.manual
    /\ lastChecked' = OnPushChecks(FALSE, fromTemplate, FALSE, r.manual)
    /\ view' = DetectChanges(view, r.state, lastChecked')

\* ngOnInit: setInterval(..., 1000); the view is created right after.
UserNgOnInit ==
    /\ ~userInit
    /\ userInit' = TRUE
    /\ intervalOn' = TRUE
    /\ cmp' = cmp
    /\ view' = Render(cmp)
    /\ lastOp' = "ngOnInit"
    /\ lastManual' = FALSE
    /\ lastChecked' = TRUE
    /\ obsEmitted' = "none"
    /\ UNCHANGED <<nextRef, userDestroyed, pendingBad, pendingObs>>
    /\ UNCHANGED notUser

IntervalFires ==
    /\ intervalOn
    /\ \E rnd \in Randoms : Handled("interval", intervalCallback(cmp, rnd), FALSE)
    /\ obsEmitted' = "none"
    /\ UNCHANGED <<nextRef, intervalOn, userInit, userDestroyed, pendingBad, pendingObs>>
    /\ UNCHANGED notUser

MutateUser ==
    /\ userInit
    /\ ~userDestroyed
    /\ \E rnd \in Randoms : Handled("mutateUser", mutateUser(cmp, rnd), TRUE)
    /\ obsEmitted' = "none"
    /\ UNCHANGED <<nextRef, intervalOn, userInit, userDestroyed, pendingBad, pendingObs>>
    /\ UNCHANGED notUser

ReplaceUser ==
    /\ userInit
    /\ ~userDestroyed
    /\ nextRef <= MaxObjects
    /\ Handled("replaceUser", replaceUser(cmp, nextRef), TRUE)
    /\ nextRef' = nextRef + 1
    /\ obsEmitted' = "none"
    /\ UNCHANGED <<intervalOn, userInit, userDestroyed, pendingBad, pendingObs>>
    /\ UNCHANGED notUser

IncrementBad ==
    /\ userInit
    /\ ~userDestroyed
    /\ cmp.counter < MaxCounter
    /\ Handled("incrementBad", incrementBad(cmp), TRUE)
    /\ obsEmitted' = "none"
    /\ UNCHANGED <<nextRef, intervalOn, userInit, userDestroyed, pendingBad, pendingObs>>
    /\ UNCHANGED notUser

IncrementGood ==
    /\ userInit
    /\ ~userDestroyed
    /\ cmp.counter < MaxCounter
    /\ Handled("incrementGood", incrementGood(cmp), TRUE)
    /\ obsEmitted' = "none"
    /\ UNCHANGED <<nextRef, intervalOn, userInit, userDestroyed, pendingBad, pendingObs>>
    /\ UNCHANGED notUser

\* fetchDataBad: sets loading and starts the promise of setTimeout(resolve, 1500).
FetchDataBad ==
    /\ userInit
    /\ ~userDestroyed
    /\ pendingBad < MaxPendingBad
    /\ Handled("fetchDataBad", fetchDataBad(cmp), TRUE)
    /\ pendingBad' = pendingBad + 1
    /\ obsEmitted' = "none"
    /\ UNCHANGED <<nextRef, intervalOn, userInit, userDestroyed, pendingObs>>
    /\ UNCHANGED notUser

\* The 1500 ms have passed: the promise resolves and its callback runs.
FetchDataBadResolves ==
    /\ pendingBad > 0
    /\ \E stamp \in Stamps : Handled("fetchDataBadThen", fetchDataBadThen(cmp, stamp), FALSE)
    /\ pendingBad' = pendingBad - 1
    /\ obsEmitted' = "none"
    /\ UNCHANGED <<nextRef, intervalOn, userInit, userDestroyed, pendingObs>>
    /\ UNCHANGED notUser

\* fetchDataWithObservable: sets loading and subscribes to of(response).pipe(delay(1500), ...).
FetchDataWithObservable ==
    /\ userInit
    /\ ~userDestroyed
    /\ Len(pendingObs) < MaxPending
    /\ Handled("fetchDataWithObservable", fetchDataWithObservable(cmp), TRUE)
    /\ \E stamp \in Stamps : pendingObs' = Append(pendingObs, stamp)
    /\ obsEmitted' = "none"
    /\ UNCHANGED <<nextRef, intervalOn, userInit, userDestroyed, pendingBad>>
    /\ UNCHANGED notUser

\* The 1500 ms of the oldest call in flight have passed: its response is
\* delivered to tap and the observable completes. Equal delays keep the
\* deliveries in the order of the calls.
ObservableDelivers ==
    /\ pendingObs # <<>>
    /\ Handled("fetchDataWithObservableTap",
               fetchDataWithObservableTap(cmp, Head(pendingObs)), FALSE)
    /\ pendingObs' = Tail(pendingObs)
    /\ obsEmitted' = "response"
    /\ UNCHANGED <<nextRef, intervalOn, userInit, userDestroyed, pendingBad>>
    /\ UNCHANGED notUser

\* The 1500 ms of the oldest call in flight have passed and tap's callback
\* throws: the error reaches catchError, which emits null in its place.
ObservableErrors ==
    /\ pendingObs # <<>>
    /\ \E threw \in TapThrew(cmp, Head(pendingObs)) :
          Handled("fetchDataWithObservableCatchError",
                  fetchDataWithObservableCatchError(threw), FALSE)
    /\ pendingObs' = Tail(pendingObs)
    /\ obsEmitted' = "null"
    /\ UNCHANGED <<nextRef, intervalOn, userInit, userDestroyed, pendingBad>>
    /\ UNCHANGED notUser

\* The framework destroys the component and removes its view.  The class
\* has no ngOnDestroy and keeps no handle of its setInterval, its promises
\* or its subscriptions, so nothing else changes.
UserDestroy ==
    /\ userInit
    /\ ~userDestroyed
    /\ userDestroyed' = TRUE
    /\ lastOp' = "destroy"
    /\ lastManual' = FALSE
    /\ lastChecked' = FALSE
    /\ obsEmitted' = "none"
    /\ UNCHANGED <<cmp, view, nextRef, intervalOn, userInit, pendingBad, pendingObs>>
    /\ UNCHANGED notUser

UserNext ==
    \/ UserNgOnInit
    \/ IntervalFires
    \/ MutateUser
    \/ ReplaceUser
    \/ IncrementBad
    \/ IncrementGood
    \/ FetchDataBad
    \/ FetchDataBadResolves
    \/ FetchDataWithObservable
    \/ ObservableDelivers
    \/ ObservableErrors
    \/ UserDestroy

\* The handlers that read or write loading and apiData, and the timers they
\* start; the other handlers of the card are at rest.
FetchNext ==
    \/ UserNgOnInit
    \/ FetchDataBad
    \/ FetchDataBadResolves
    \/ FetchDataWithObservable
    \/ ObservableDelivers
    \/ ObservableErrors
    \/ UserDestroy

(***************************************************************************)
(* ApiService: the users cache and its 5 minute timer.                     *)
(***************************************************************************)
\* timer(300000)
CacheMs == 300000

\* The clock moves in steps of TickMs.
TickMs == CacheMs \div TicksPerTtl

\* getUsers that never builds a second pipeline.
getUsersNoCache(c, born, timers, now) ==
    [cache |-> Len(born) + 1,
     born |-> Append(born, now),
     timers |-> timers \cup {[id |-> Len(born) + 1, due |-> now + CacheMs]}]

\* ApiService.getUsers: with no cache in place, build the pipeline and start
\* the timer that clears usersCache$; return usersCache$.
getUsers(c, born, timers, now) ==
    IF c = 0
    THEN [cache |-> Len(born) + 1,
          born |-> Append(born, now),
          timers |-> timers \cup {[id |-> Len(born) + 1, due |-> now + CacheMs]}]
    ELSE [cache |-> c, born |-> born, timers |-> timers]

\* ApiService.clearCache: this.usersCache$ = null
clearCache(c) == 0

\* The timer's subscriber: () => (this.usersCache$ = null)
timerCallback(c) == 0

GetUsers ==
    /\ usersCache = 0 => Len(cacheBorn) < MaxCaches
    /\ LET r == getUsers(usersCache, cacheBorn, apiTimers, apiNow)
       IN  /\ usersCache' = r.cache
           /\ cacheBorn' = r.born
           /\ apiTimers' = r.timers
           /\ apiReturned' = r.cache
    /\ apiLastOp' = "getUsers"
    /\ UNCHANGED apiNow
    /\ UNCHANGED notApi

ClearCache ==
    /\ usersCache' = clearCache(usersCache)
    /\ apiLastOp' = "clearCache"
    /\ UNCHANGED <<apiNow, cacheBorn, apiTimers, apiReturned>>
    /\ UNCHANGED notApi

\* A timer that is due fires, once.
TimerFires ==
    /\ \E t \in apiTimers :
          /\ t.due <= apiNow
          /\ apiTimers' = apiTimers \ {t}
    /\ usersCache' = timerCallback(usersCache)
    /\ apiLastOp' = "timer"
    /\ UNCHANGED <<apiNow, cacheBorn, apiReturned>>
    /\ UNCHANGED notApi

\* Time passes; the timers that are due fire first.
ApiTick ==
    /\ apiNow < MaxTicks * TickMs
    /\ \A t \in apiTimers : t.due > apiNow
    /\ apiNow' = apiNow + TickMs
    /\ apiLastOp' = "tick"
    /\ UNCHANGED <<usersCache, cacheBorn, apiTimers, apiReturned>>
    /\ UNCHANGED notApi

ApiNext ==
    \/ GetUsers
    \/ ClearCache
    \/ TimerFires
    \/ ApiTick

(***************************************************************************)
(* RateLimiter.                                                            *)
(***************************************************************************)
\* isAllowed that admits a request when the window is already full.
isAllowedOffByOne(reqs, now, maxRequests, windowMs) ==
    LET windowStart == now - windowMs
        kept == SelectSeq(reqs, LAMBDA time : time > windowStart)
    IN  IF Len(kept) <= maxRequests
        THEN [requests |-> Append(kept, now), allowed |-> TRUE]
        ELSE [requests |-> kept, allowed |-> FALSE]

\* RateLimiter.isAllowed
isAllowed(reqs, now, maxRequests, windowMs) ==
    LET windowStart == now - windowMs
        kept == SelectSeq(reqs, LAMBDA time : time > windowStart)
    IN  IF Len(kept) < maxRequests
        THEN [requests |-> Append(kept, now), allowed |-> TRUE]
        ELSE [requests |-> kept, allowed |-> FALSE]

\* RateLimiter.reset: this.requests = []
reset(reqs) == <<>>

IsAllowed ==
    /\ LET r == isAllowed(requests, rlNow, rlMax, rlWindow)
       IN  /\ requests' = r.requests
           /\ allowedLog' = IF r.allowed THEN Append(allowedLog, rlNow) ELSE allowedLog
           /\ rlLast' = IF r.allowed THEN "allowed" ELSE "denied"
    /\ UNCHANGED <<rlMax, rlWindow, rlNow, rlResets>>
    /\ UNCHANGED notRate

Reset ==
    /\ rlResets < MaxResets
    /\ requests' = reset(requests)
    /\ rlResets' = rlResets + 1
    /\ UNCHANGED <<rlMax, rlWindow, rlNow, allowedLog, rlLast>>
    /\ UNCHANGED notRate

\* Date.now() moves on by 1 ms.
RateTick ==
    /\ rlNow < MaxNow
    /\ rlNow' = rlNow + 1
    /\ UNCHANGED <<rlMax, rlWindow, requests, allowedLog, rlLast, rlResets>>
    /\ UNCHANGED notRate

RateNext ==
    \/ IsAllowed
    \/ Reset
    \/ RateTick

(***************************************************************************)
(* LRUCache: a Map, whose iteration order is its insertion order.          *)
(***************************************************************************)
\* The result `undefined`; the keys and values are positive.
Undefined == 0

LruKeys == 1 .. MaxKeys
LruVals == 1 .. MaxVals

\* Map.prototype.has / get / delete / set / keys().next().value / keys as a set
MapHas(m, k) == \E i \in DOMAIN m : m[i].key = k

MapGet(m, k) ==
    IF MapHas(m, k) THEN m[CHOOSE i \in DOMAIN m : m[i].key = k].value ELSE Undefined

MapDelete(m, k) == SelectSeq(m, LAMBDA e : e.key # k)

MapSet(m, k, v) ==
    IF MapHas(m, k)
    THEN [i \in DOMAIN m |-> IF m[i].key = k THEN [key |-> k, value |-> v] ELSE m[i]]
    ELSE Append(m, [key |-> k, value |-> v])

MapFirstKey(m) == IF m = <<>> THEN Undefined ELSE m[1].key

MapKeys(m) == {m[i].key : i \in DOMAIN m}

\* get that returns the value and leaves the entry where it is.
lruGetNoMove(m, k) ==
    IF ~MapHas(m, k)
    THEN [cache |-> m, result |-> Undefined]
    ELSE [cache |-> m, result |-> MapGet(m, k)]

\* LRUCache.get
lruGet(m, k) ==
    IF ~MapHas(m, k)
    THEN [cache |-> m, result |-> Undefined]
    ELSE LET value == MapGet(m, k)
         IN  [cache |-> MapSet(MapDelete(m, k), k, value), result |-> value]

\* put that never removes the first item.
lruPutNoEvict(m, capacity, k, v) ==
    MapSet(IF MapHas(m, k) THEN MapDelete(m, k) ELSE m, k, v)

\* LRUCache.put
lruPut(m, capacity, k, v) ==
    LET m1 == IF MapHas(m, k)
              THEN MapDelete(m, k)
              ELSE IF Len(m) >= capacity
                   THEN MapDelete(m, MapFirstKey(m))
                   ELSE m
    IN  MapSet(m1, k, v)

\* new LRUCache(capacity)
LruNew ==
    /\ ~lruBuilt
    /\ lruBuilt' = TRUE
    /\ \E capacity \in 0 .. MaxCapacity : lruCapacity' = capacity
    /\ lruCache' = <<>>
    /\ UNCHANGED <<lruUsed, lruClock, lruLast>>
    /\ UNCHANGED notLru

LruGet ==
    /\ lruBuilt
    /\ lruClock < MaxLruOps
    /\ \E k \in LruKeys :
          LET r == lruGet(lruCache, k)
          IN  /\ lruCache' = r.cache
              /\ lruLast' = [op |-> "get", key |-> k, value |-> Undefined, result |-> r.result]
              /\ lruUsed' = IF MapHas(lruCache, k)
                            THEN [lruUsed EXCEPT ![k] = lruClock + 1]
                            ELSE lruUsed
    /\ lruClock' = lruClock + 1
    /\ UNCHANGED <<lruBuilt, lruCapacity>>
    /\ UNCHANGED notLru

LruPut ==
    /\ lruBuilt
    /\ lruClock < MaxLruOps
    /\ \E k \in LruKeys : \E v \in LruVals :
          /\ lruCache' = lruPut(lruCache, lruCapacity, k, v)
          /\ lruLast' = [op |-> "put", key |-> k, value |-> v, result |-> Undefined]
          /\ lruUsed' = [lruUsed EXCEPT ![k] = lruClock + 1]
    /\ lruClock' = lruClock + 1
    /\ UNCHANGED <<lruBuilt, lruCapacity>>
    /\ UNCHANGED notLru

LruNext ==
    \/ LruNew
    \/ LruGet
    \/ LruPut

(***************************************************************************)
(* pollData: interval(5000) | startWith(0) | switchMap(http.get) |         *)
(* retry(2) | catchError(of(null)) | filter | distinctUntilChanged.        *)
(***************************************************************************)
\* retry(2)
RetryCount == 2

\* The bodies http.get can answer with.
PollData == 1 .. MaxData

\* An error of the inner request leaves switchMap and ends the interval.
\* retry(2) resubscribes to the source while it has retries left, and
\* startWith(0) then issues a request at once; after that the error reaches
\* catchError, whose of(null) emits null (dropped by filter) and completes.
pollOnError(retried) ==
    IF retried < RetryCount
    THEN [sub |-> "active", retried |-> retried + 1, request |-> TRUE]
    ELSE [sub |-> "completed", retried |-> retried, request |-> FALSE]

\* filter((data) => data !== null), then distinctUntilChanged on the JSON text.
pollDeliver(prev, out, data) ==
    IF data = prev
    THEN [prev |-> prev, out |-> out]
    ELSE [prev |-> data, out |-> Append(out, data)]

\* pollData().subscribe(...): startWith(0) polls immediately.
PollSubscribe ==
    /\ pollSub = "none"
    /\ pollSub' = "active"
    /\ pollInFlight' = TRUE
    /\ pollRequests' = pollRequests + 1
    /\ UNCHANGED <<pollRetried, pollFailed, pollPrev, pollOut>>
    /\ UNCHANGED notPoll

\* 5 seconds have passed: switchMap drops the request in flight, if any, and
\* issues a new one.
PollIntervalEmits ==
    /\ pollSub = "active"
    /\ pollRequests < MaxPollRequests
    /\ pollInFlight' = TRUE
    /\ pollRequests' = pollRequests + 1
    /\ UNCHANGED <<pollSub, pollRetried, pollFailed, pollPrev, pollOut>>
    /\ UNCHANGED notPoll

\* The request in flight answers with data.
PollHttpAnswers ==
    /\ pollSub = "active"
    /\ pollInFlight
    /\ pollInFlight' = FALSE
    /\ \E data \in PollData :
          LET r == pollDeliver(pollPrev, pollOut, data)
          IN  pollPrev' = r.prev /\ pollOut' = r.out
    /\ UNCHANGED <<pollSub, pollRetried, pollRequests, pollFailed>>
    /\ UNCHANGED notPoll

\* The request in flight fails.
PollHttpFails ==
    /\ pollSub = "active"
    /\ pollInFlight
    /\ pollFailed' = pollFailed + 1
    /\ LET r == pollOnError(pollRetried)
       IN  /\ pollSub' = r.sub
           /\ pollRetried' = r.retried
           /\ pollInFlight' = r.request
           /\ pollRequests' = IF r.request THEN pollRequests + 1 ELSE pollRequests
    /\ UNCHANGED <<pollPrev, pollOut>>
    /\ UNCHANGED notPoll

PollNext ==
    \/ PollSubscribe
    \/ PollIntervalEmits
    \/ PollHttpAnswers
    \/ PollHttpFails

(***************************************************************************)
(* debounce: every call clears the pending timer and arms a new one.       *)
(***************************************************************************)
\* The arguments the debounced function is called with.
DbArgs == 1 .. MaxArgs

\* clearTimeout(id): the timer with this id, if still armed, never fires.
clearTimeout(timers, id) == {x \in timers : x.id # id}

\* The debounced function without clearTimeout(timeoutId).
debouncedNoClear(timeoutId, timers, nextId, now, delay, args, call) ==
    [timeoutId |-> nextId,
     timers    |-> timers \cup
                   {[id |-> nextId, due |-> now + delay, args |-> args, call |-> call]}]

\* The debounced function, called with args at time now:
\*   clearTimeout(timeoutId);
\*   timeoutId = setTimeout(() => func.apply(this, args), delay);
\* `call` is history: the number of the call that armed the timer.
debounced(timeoutId, timers, nextId, now, delay, args, call) ==
    [timeoutId |-> nextId,
     timers    |-> clearTimeout(timers, timeoutId) \cup
                   {[id |-> nextId, due |-> now + delay, args |-> args, call |-> call]}]

\* const debounced = debounce(func, delay)
DebounceNew ==
    /\ ~dbBuilt
    /\ dbBuilt' = TRUE
    /\ \E delay \in 1 .. MaxDelay : dbDelay' = delay
    /\ UNCHANGED <<dbNow, dbTimeoutId, dbTimers, dbNextId, dbCalls, dbInvoked>>
    /\ UNCHANGED notDb

\* debounced(args)
DebouncedCall ==
    /\ dbBuilt
    /\ Len(dbCalls) < MaxDbCalls
    /\ \E args \in DbArgs :
          LET r == debounced(dbTimeoutId, dbTimers, dbNextId, dbNow, dbDelay,
                             args, Len(dbCalls) + 1)
          IN  /\ dbTimeoutId' = r.timeoutId
              /\ dbTimers' = r.timers
              /\ dbCalls' = Append(dbCalls, [t |-> dbNow, args |-> args])
    /\ dbNextId' = dbNextId + 1
    /\ UNCHANGED <<dbBuilt, dbDelay, dbNow, dbInvoked>>
    /\ UNCHANGED notDb

\* A timer whose delay has elapsed fires, at its due time or later:
\* () => func.apply(this, args)
DebounceTimerFires ==
    /\ \E x \in dbTimers :
          /\ x.due <= dbNow
          /\ dbTimers' = dbTimers \ {x}
          /\ dbInvoked' = Append(dbInvoked, [t |-> dbNow, args |-> x.args,
                                             call |-> x.call, calls |-> Len(dbCalls)])
    /\ UNCHANGED <<dbBuilt, dbDelay, dbNow, dbTimeoutId, dbNextId, dbCalls>>
    /\ UNCHANGED notDb

\* A millisecond passes.
DebounceTick ==
    /\ dbBuilt
    /\ dbNow < MaxDbNow
    /\ dbNow' = dbNow + 1
    /\ UNCHANGED <<dbBuilt, dbDelay, dbTimeoutId, dbTimers, dbNextId, dbCalls, dbInvoked>>
    /\ UNCHANGED notDb

DebounceNext ==
    \/ DebounceNew
    \/ DebouncedCall
    \/ DebounceTimerFires
    \/ DebounceTick

(***************************************************************************)
(* throttle: a call runs func only while the inThrottle flag is unset.     *)
(***************************************************************************)
\* The arguments the throttled function is called with.
ThArgs == 1 .. MaxThArgs

\* The throttled function without `inThrottle = true`.
throttledNoFlag(flag, timers, now, limit) ==
    IF ~flag
    THEN [run |-> TRUE, inThrottle |-> flag, timers |-> timers \cup {now + limit}]
    ELSE [run |-> FALSE, inThrottle |-> flag, timers |-> timers]

\* The throttled function, called at time now:
\*   if (!inThrottle) {
\*     func.apply(this, args);
\*     inThrottle = true;
\*     setTimeout(() => (inThrottle = false), limit);
\*   }
\* run tells whether func was executed.
throttled(flag, timers, now, limit) ==
    IF ~flag
    THEN [run |-> TRUE, inThrottle |-> TRUE, timers |-> timers \cup {now + limit}]
    ELSE [run |-> FALSE, inThrottle |-> flag, timers |-> timers]

\* const throttled = throttle(func, limit)
ThrottleNew ==
    /\ ~thBuilt
    /\ thBuilt' = TRUE
    /\ \E limit \in 1 .. MaxLimit : thLimit' = limit
    /\ UNCHANGED <<thNow, inThrottle, thTimers, thCalls, thExecuted>>
    /\ UNCHANGED notTh

\* throttled(args)
ThrottledCall ==
    /\ thBuilt
    /\ Len(thCalls) < MaxThCalls
    /\ \E args \in ThArgs :
          LET r == throttled(inThrottle, thTimers, thNow, thLimit)
          IN  /\ inThrottle' = r.inThrottle
              /\ thTimers' = r.timers
              /\ thCalls' = Append(thCalls, [t |-> thNow, args |-> args, flag |-> inThrottle])
              /\ thExecuted' = IF r.run
                               THEN Append(thExecuted, [t |-> thNow, args |-> args,
                                                        call |-> Len(thCalls) + 1])
                               ELSE thExecuted
    /\ UNCHANGED <<thBuilt, thLimit, thNow>>
    /\ UNCHANGED notTh

\* A timer whose limit has elapsed fires, at its due time or later:
\* () => (inThrottle = false)
ThrottleTimerFires ==
    /\ \E due \in thTimers :
          /\ due <= thNow
          /\ thTimers' = thTimers \ {due}
    /\ inThrottle' = FALSE
    /\ UNCHANGED <<thBuilt, thLimit, thNow, thCalls, thExecuted>>
    /\ UNCHANGED notTh

\* A millisecond passes.
ThrottleTick ==
    /\ thBuilt
    /\ thNow < MaxThNow
    /\ thNow' = thNow + 1
    /\ UNCHANGED <<thBuilt, thLimit, inThrottle, thTimers, thCalls, thExecuted>>
    /\ UNCHANGED notTh

ThrottleNext ==
    \/ ThrottleNew
    \/ ThrottledCall
    \/ ThrottleTimerFires
    \/ ThrottleTick

(***************************************************************************)
(* CacheWithTTL: a Map of key -> { value, expiry }.                        *)
(***************************************************************************)
TtlKeys == 1 .. MaxTtlKeys
TtlVals == 1 .. MaxTtlVals

\* this.cache.get(key) of a key the Map does not hold.
NoItem == [has |-> FALSE, value |-> 0, expiry |-> 0]

\* set(key, value, ttl) at time now:
\*   const expiry = Date.now() + ttl; this.cache.set(key, { value, expiry });
ttlSet(cache, now, key, value, ttl) ==
    [cache EXCEPT ![key] = [has |-> TRUE, value |-> value, expiry |-> now + ttl]]

\* get(key) that does not look at the expiry.
ttlGetNoExpiry(cache, now, key) ==
    IF ~cache[key].has
    THEN [result |-> Undefined, cache |-> cache]
    ELSE [result |-> cache[key].value, cache |-> cache]

\* get(key) at time now:
\*   if (!item) return undefined;
\*   if (Date.now() > item.expiry) { this.cache.delete(key); return undefined; }
\*   return item.value;
ttlGet(cache, now, key) ==
    IF ~cache[key].has
    THEN [result |-> Undefined, cache |-> cache]
    ELSE IF now > cache[key].expiry
         THEN [result |-> Undefined, cache |-> [cache EXCEPT ![key] = NoItem]]
         ELSE [result |-> cache[key].value, cache |-> cache]

\* clear(): this.cache.clear()
ttlClear(cache) == [k \in TtlKeys |-> NoItem]

\* cleanup() at time now: deletes every entry with now > item.expiry.
ttlCleanup(cache, now) ==
    [k \in TtlKeys |-> IF cache[k].has /\ now > cache[k].expiry THEN NoItem ELSE cache[k]]

TtlSet ==
    /\ ttlOps < MaxTtlOps
    /\ \E key \in TtlKeys, value \in TtlVals, ttl \in 0 .. MaxTtl :
          /\ ttlCache' = ttlSet(ttlCache, ttlNow, key, value, ttl)
          /\ ttlWritten' = [ttlWritten EXCEPT ![key] =
                               [has |-> TRUE, value |-> value, s |-> ttlNow, ttl |-> ttl]]
          /\ ttlLast' = [op |-> "set", key |-> key, t |-> ttlNow,
                         had |-> ttlCache[key].has, result |-> Undefined]
    /\ ttlOps' = ttlOps + 1
    /\ UNCHANGED ttlNow
    /\ UNCHANGED notTtl

TtlGet ==
    /\ ttlOps < MaxTtlOps
    /\ \E key \in TtlKeys :
          LET r == ttlGet(ttlCache, ttlNow, key)
          IN  /\ ttlCache' = r.cache
              /\ ttlLast' = [op |-> "get", key |-> key, t |-> ttlNow,
                             had |-> ttlCache[key].has, result |-> r.result]
    /\ ttlOps' = ttlOps + 1
    /\ UNCHANGED <<ttlNow, ttlWritten>>
    /\ UNCHANGED notTtl

TtlClear ==
    /\ ttlOps < MaxTtlOps
    /\ ttlCache' = ttlClear(ttlCache)
    /\ ttlWritten' = [k \in TtlKeys |-> [has |-> FALSE, value |-> 0, s |-> 0, ttl |-> 0]]
    /\ ttlLast' = [op |-> "clear", key |-> 0, t |-> ttlNow, had |-> FALSE,
                   result |-> Undefined]
    /\ ttlOps' = ttlOps + 1
    /\ UNCHANGED ttlNow
    /\ UNCHANGED notTtl

TtlCleanup ==
    /\ ttlOps < MaxTtlOps
    /\ ttlCache' = ttlCleanup(ttlCache, ttlNow)
    /\ ttlLast' = [op |-> "cleanup", key |-> 0, t |-> ttlNow, had |-> FALSE,
                   result |-> Undefined]
    /\ ttlOps' = ttlOps + 1
    /\ UNCHANGED <<ttlNow, ttlWritten>>
    /\ UNCHANGED notTtl

\* A millisecond passes.
TtlTick ==
    /\ ttlNow < MaxTtlNow
    /\ ttlNow' = ttlNow + 1
    /\ UNCHANGED <<ttlCache, ttlWritten, ttlLast, ttlOps>>
    /\ UNCHANGED notTtl

TtlNext ==
    \/ TtlSet
    \/ TtlGet
    \/ TtlClear
    \/ TtlCleanup
    \/ TtlTick

(***************************************************************************)
(* FakeTodoService: an array of todos behind Observable-returning calls.   *)
(* The calls read and change this.todos when they are made; the            *)
(* Observable they return only carries the result.                         *)
(***************************************************************************)
\* private todos: Todo[] = [ ... ]
SeedTodos ==
    << [id |-> 1, title |-> "Learn TypeScript", completed |-> TRUE, userId |-> 1],
       [id |-> 2, title |-> "Master RxJS", completed |-> FALSE, userId |-> 1],
       [id |-> 3, title |-> "Build Angular App", completed |-> FALSE, userId |-> 1] >>

\* The ids the calls are made with: the seeded ids and the clock's readings.
\* The clock starts after the seeded ids, as Date.now() is far above them.
TodoIds == 1 .. MaxTodoNow

\* Omit<Todo, 'id'>: the argument of createTodo.
NewTodos == {[title |-> "New todo", completed |-> c, userId |-> 1] : c \in BOOLEAN}

\* Partial<Todo>: fields names the properties the object has; a property it
\* does not have is written 0 / FALSE here and is never read.
TodoUpdates ==
    {u \in [fields : SUBSET {"id", "completed"}, id : {0} \cup TodoIds, completed : BOOLEAN] :
        /\ ("id" \in u.fields) = (u.id # 0)
        /\ ("completed" \notin u.fields) => ~u.completed}

\* this.todos.findIndex((t) => t.id === id), counted from 1; -1 if none.
findIndex(list, id) ==
    IF \E i \in 1 .. Len(list) : list[i].id = id
    THEN CHOOSE i \in 1 .. Len(list) :
            /\ list[i].id = id
            /\ \A j \in 1 .. i - 1 : list[j].id # id
    ELSE -1

\* list.splice(index, 1), index counted from 1; a negative index counts
\* from the end, so splice(-1, 1) removes the last element.
splice(list, index) ==
    LET at == IF index = -1 THEN Len(list) ELSE index
    IN  [i \in 1 .. Len(list) - 1 |-> IF i < at THEN list[i] ELSE list[i + 1]]

\* { ...todo, ...updates }
spread(todo, updates) ==
    [id        |-> IF "id" \in updates.fields THEN updates.id ELSE todo.id,
     title     |-> todo.title,
     completed |-> IF "completed" \in updates.fields THEN updates.completed
                   ELSE todo.completed,
     userId    |-> todo.userId]

\* getTodo(id): find, then of(todo) or throwError('Todo not found').
getTodo(list, id) ==
    IF \E i \in 1 .. Len(list) : list[i].id = id
    THEN [todos |-> list, error |-> "none"]
    ELSE [todos |-> list, error |-> "Todo not found"]

\* createTodo(todo) at time now: { ...todo, id: Date.now() } is pushed.
createTodo(list, now, todo) ==
    [todos |-> Append(list, [id |-> now, title |-> todo.title,
                             completed |-> todo.completed, userId |-> todo.userId]),
     error |-> "none"]

\* updateTodo(id, updates)
updateTodo(list, id, updates) ==
    LET index == findIndex(list, id)
    IN  IF index = -1
        THEN [todos |-> list, error |-> "Todo not found"]
        ELSE [todos |-> [list EXCEPT ![index] = spread(list[index], updates)],
              error |-> "none"]

\* deleteTodo(id) without the `index === -1` test.
deleteTodoUnguarded(list, id) ==
    [todos |-> IF list = <<>> THEN list ELSE splice(list, findIndex(list, id)),
     error |-> "none"]

\* deleteTodo(id)
deleteTodo(list, id) ==
    LET index == findIndex(list, id)
    IN  IF index = -1
        THEN [todos |-> list, error |-> "Todo not found"]
        ELSE [todos |-> splice(list, index), error |-> "none"]

\* What a call leaves behind: the list and the history of the call.
TodoCalled(op, id, r) ==
    /\ todos' = r.todos
    /\ todoLast' = [op |-> op, id |-> id,
                    found |-> \E i \in 1 .. Len(todos) : todos[i].id = id,
                    error |-> r.error]
    /\ todoOps' = todoOps + 1
    /\ UNCHANGED todoNow
    /\ UNCHANGED notTodo

GetTodo ==
    /\ todoOps < MaxTodoOps
    /\ \E id \in TodoIds : TodoCalled("getTodo", id, getTodo(todos, id))

CreateTodo ==
    /\ todoOps < MaxTodoOps
    /\ \E todo \in NewTodos :
          TodoCalled("createTodo", todoNow, createTodo(todos, todoNow, todo))

UpdateTodo ==
    /\ todoOps < MaxTodoOps
    /\ \E id \in TodoIds, updates \in TodoUpdates :
          TodoCalled("updateTodo", id, updateTodo(todos, id, updates))

DeleteTodo ==
    /\ todoOps < MaxTodoOps
    /\ \E id \in TodoIds : TodoCalled("deleteTodo", id, deleteTodo(todos, id))

\* A millisecond passes.
TodoTick ==
    /\ todoNow < MaxTodoNow
    /\ todoNow' = todoNow + 1
    /\ UNCHANGED <<todos, todoLast, todoOps>>
    /\ UNCHANGED notTodo

TodoNext ==
    \/ GetTodo
    \/ CreateTodo
    \/ UpdateTodo
    \/ DeleteTodo
    \/ TodoTick

(***************************************************************************)
(* LinkedList: ListNodes on a heap, linked by next; 0 stands for null.     *)
(***************************************************************************)
LlVals == 1 .. MaxLlVals

\* The list object and the heap it points into.
LinkedList(head, tail, length, nodes) ==
    [head |-> head, tail |-> tail, length |-> length, nodes |-> nodes]

\* new ListNode(value): the node gets the next free number; next is null.
NewListNode(nodes, value) == Append(nodes, [value |-> value, next |-> 0])

\* append(value)
append(l, value) ==
    LET nodes == NewListNode(l.nodes, value)
        newNode == Len(nodes)
    IN  IF l.head = 0
        THEN LinkedList(newNode, newNode, l.length + 1, nodes)
        ELSE LinkedList(l.head, newNode, l.length + 1,
                        [nodes EXCEPT ![l.tail].next = newNode])

\* prepend(value)
prepend(l, value) ==
    LET nodes == NewListNode(l.nodes, value)
        newNode == Len(nodes)
    IN  LinkedList(newNode,
                   IF l.tail = 0 THEN newNode ELSE l.tail,
                   l.length + 1,
                   [nodes EXCEPT ![newNode].next = l.head])

\* The while loop of delete, standing at node current.
RECURSIVE deleteAfter(_, _, _)
deleteAfter(l, current, value) ==
    LET next == l.nodes[current].next
    IN  IF next = 0
        THEN l
        ELSE IF l.nodes[next].value = value
             THEN LET after == l.nodes[next].next
                  IN  LinkedList(l.head,
                                 IF after = 0 THEN current ELSE l.tail,
                                 l.length - 1,
                                 [l.nodes EXCEPT ![current].next = after])
             ELSE deleteAfter(l, next, value)

\* delete(value)
delete(l, value) ==
    IF l.head = 0
    THEN l
    ELSE IF l.nodes[l.head].value = value
         THEN LinkedList(l.nodes[l.head].next, l.tail, l.length - 1, l.nodes)
         ELSE deleteAfter(l, l.head, value)

\* The nodes reachable from node n along next, in order.
RECURSIVE NodesFrom(_, _)
NodesFrom(nodes, n) ==
    IF n = 0 THEN <<>> ELSE <<n>> \o NodesFrom(nodes, nodes[n].next)

\* toArray()
toArray(l) ==
    LET reach == NodesFrom(l.nodes, l.head)
    IN  [i \in 1 .. Len(reach) |-> l.nodes[reach[i]].value]

\* The list as the variables hold it.
TheList == LinkedList(llHead, llTail, llLength, llNodes)

LlBecomes(l) ==
    /\ llHead' = l.head
    /\ llTail' = l.tail
    /\ llLength' = l.length
    /\ llNodes' = l.nodes

LlAppend ==
    /\ Len(llNodes) < MaxNodes
    /\ \E value \in LlVals : LlBecomes(append(TheList, value))
    /\ UNCHANGED notLl

LlPrepend ==
    /\ Len(llNodes) < MaxNodes
    /\ \E value \in LlVals : LlBecomes(prepend(TheList, value))
    /\ UNCHANGED notLl

LlDelete ==
    /\ \E value \in LlVals : LlBecomes(delete(TheList, value))
    /\ UNCHANGED notLl

LlNext ==
    \/ LlAppend
    \/ LlPrepend
    \/ LlDelete

(***************************************************************************)
(* CircularQueue: an array of capacity slots with front, rear and size.    *)
(***************************************************************************)
CqVals == 1 .. MaxCqVals

\* The queue object.
CircularQueue(items, front, rear, size, capacity) ==
    [items |-> items, front |-> front, rear |-> rear, size |-> size,
     capacity |-> capacity]

\* items[i]: reading an index the array does not have gives undefined.
ArrayGet(items, i) == IF i \in DOMAIN items THEN items[i] ELSE Undefined

\* items[i] = v: writing an index the array does not have adds it.
ArraySet(items, i, v) ==
    [j \in DOMAIN items \cup {i} |-> IF j = i THEN v ELSE items[j]]

\* isEmpty() / isFull()
isEmpty(q) == q.size = 0
isFull(q)  == q.size = q.capacity

\* enqueue(item): the queue after the call and what the call returns.
enqueue(q, item) ==
    IF isFull(q)
    THEN [queue |-> q, result |-> FALSE]
    ELSE [queue  |-> CircularQueue(ArraySet(q.items, q.rear, item), q.front,
                                   (q.rear + 1) % q.capacity, q.size + 1, q.capacity),
          result |-> TRUE]

\* dequeue() that advances front without the modulo.
dequeueNoWrap(q) ==
    IF isEmpty(q)
    THEN [queue |-> q, result |-> Undefined]
    ELSE [queue  |-> CircularQueue(ArraySet(q.items, q.front, Undefined),
                                   q.front + 1, q.rear, q.size - 1, q.capacity),
          result |-> ArrayGet(q.items, q.front)]

\* dequeue()
dequeue(q) ==
    IF isEmpty(q)
    THEN [queue |-> q, result |-> Undefined]
    ELSE [queue  |-> CircularQueue(ArraySet(q.items, q.front, Undefined),
                                   (q.front + 1) % q.capacity, q.rear, q.size - 1,
                                   q.capacity),
          result |-> ArrayGet(q.items, q.front)]

\* The queue as the variables hold it.
TheQueue == CircularQueue(cqItems, cqFront, cqRear, cqSize, cqCapacity)

CqBecomes(q) ==
    /\ cqItems' = q.items
    /\ cqFront' = q.front
    /\ cqRear' = q.rear
    /\ cqSize' = q.size

\* new CircularQueue(capacity): this.items = new Array(capacity)
CqNew ==
    /\ ~cqBuilt
    /\ cqBuilt' = TRUE
    /\ \E capacity \in 0 .. MaxCqCapacity :
          /\ cqCapacity' = capacity
          /\ cqItems' = [i \in 0 .. capacity - 1 |-> Undefined]
    /\ UNCHANGED <<cqFront, cqRear, cqSize, cqFifo, cqLast, cqOps>>
    /\ UNCHANGED notCq

CqEnqueue ==
    /\ cqBuilt
    /\ cqOps < MaxCqOps
    /\ \E item \in CqVals :
          LET r == enqueue(TheQueue, item)
          IN  /\ CqBecomes(r.queue)
              /\ cqFifo' = IF r.result THEN Append(cqFifo, item) ELSE cqFifo
              /\ cqLast' = [op |-> "enqueue", item |-> item,
                            result |-> IF r.result THEN 1 ELSE 0]
    /\ cqOps' = cqOps + 1
    /\ UNCHANGED <<cqBuilt, cqCapacity>>
    /\ UNCHANGED notCq

CqDequeue ==
    /\ cqBuilt
    /\ cqOps < MaxCqOps
    /\ LET r == dequeue(TheQueue)
       IN  /\ CqBecomes(r.queue)
           /\ cqFifo' = IF cqFifo = <<>> THEN cqFifo ELSE Tail(cqFifo)
           /\ cqLast' = [op |-> "dequeue", item |-> 0, result |-> r.result]
    /\ cqOps' = cqOps + 1
    /\ UNCHANGED <<cqBuilt, cqCapacity>>
    /\ UNCHANGED notCq

CqNext ==
    \/ CqNew
    \/ CqEnqueue
    \/ CqDequeue

(***************************************************************************)
(* StateService: an AppState in a BehaviorSubject; every action replaces   *)
(* it through updateState({ ...state$.value, ...partial }).  null is 0     *)
(* for selectedUserId and "null" for error.                                *)
(***************************************************************************)
UserIds == 1 .. MaxUserId
UserNames == 1 .. MaxUserNames

\* User objects.
Users == [id : UserIds, name : UserNames]

\* The lists GET /users can answer with: users with distinct ids, by id.
RECURSIVE UsersWithIds(_)
UsersWithIds(ids) ==
    IF ids = {} THEN {<<>>}
    ELSE LET top == CHOOSE i \in ids : \A j \in ids : j <= i
         IN  {Append(l, u) : l \in UsersWithIds(ids \ {top}),
                             u \in {v \in Users : v.id = top}}

ApiUsers == UNION {UsersWithIds(ids) : ids \in SUBSET UserIds}

\* The state the BehaviorSubject is created with.
AppStateNew == [users |-> <<>>, selectedUserId |-> 0, loading |-> FALSE, error |-> "null"]

\* loadUsers(), before the request answers: updateState({ loading: true, error: null })
loadUsers(st) == [st EXCEPT !.loading = TRUE, !.error = "null"]

\* loadUsers(), next: updateState({ users, loading: false })
loadUsersNext(st, users) == [st EXCEPT !.users = users, !.loading = FALSE]

\* loadUsers(), error: updateState({ loading: false, error: error.message })
loadUsersError(st, message) == [st EXCEPT !.loading = FALSE, !.error = message]

\* selectUser(userId): updateState({ selectedUserId: userId })
selectUser(st, userId) == [st EXCEPT !.selectedUserId = userId]

\* addUser(user): updateState({ users: [...users, user] })
addUser(st, user) == [st EXCEPT !.users = Append(st.users, user)]

\* updateUser(updatedUser): users.map((u) => (u.id === updatedUser.id ? updatedUser : u))
updateUser(st, updatedUser) ==
    [st EXCEPT !.users = [i \in DOMAIN st.users |->
                             IF st.users[i].id = updatedUser.id THEN updatedUser
                             ELSE st.users[i]]]

\* deleteUser(userId): updateState({ users: users.filter(...), selectedUserId: null })
deleteUser(st, userId) ==
    [st EXCEPT !.users = SelectSeq(st.users, LAMBDA u : u.id # userId),
               !.selectedUserId = 0]

\* A call of an action that answers at once.
SsCalled(st) ==
    /\ ssOps < MaxSsOps
    /\ ssState' = st
    /\ ssOps' = ssOps + 1

SsLoadUsers ==
    /\ ssPending < MaxSsPending
    /\ SsCalled(loadUsers(ssState))
    /\ ssPending' = ssPending + 1
    /\ UNCHANGED notSs

\* A getUsers() request answers with a list of users.
SsLoadUsersNext ==
    /\ ssPending > 0
    /\ \E users \in ApiUsers : ssState' = loadUsersNext(ssState, users)
    /\ ssPending' = ssPending - 1
    /\ UNCHANGED ssOps
    /\ UNCHANGED notSs

\* A getUsers() request fails.
SsLoadUsersError ==
    /\ ssPending > 0
    /\ ssState' = loadUsersError(ssState, "Http failure")
    /\ ssPending' = ssPending - 1
    /\ UNCHANGED ssOps
    /\ UNCHANGED notSs

SsSelectUser ==
    /\ \E userId \in {0} \cup UserIds : SsCalled(selectUser(ssState, userId))
    /\ UNCHANGED ssPending
    /\ UNCHANGED notSs

SsAddUser ==
    /\ \E user \in Users : SsCalled(addUser(ssState, user))
    /\ UNCHANGED ssPending
    /\ UNCHANGED notSs

SsUpdateUser ==
    /\ \E updatedUser \in Users : SsCalled(updateUser(ssState, updatedUser))
    /\ UNCHANGED ssPending
    /\ UNCHANGED notSs

SsDeleteUser ==
    /\ \E userId \in UserIds : SsCalled(deleteUser(ssState, userId))
    /\ UNCHANGED ssPending
    /\ UNCHANGED notSs

SsNext ==
    \/ SsLoadUsers
    \/ SsLoadUsersNext
    \/ SsLoadUsersError
    \/ SsSelectUser
    \/ SsAddUser
    \/ SsUpdateUser
    \/ SsDeleteUser

(***************************************************************************)
(* The specifications: one per component, the others at rest.              *)
(***************************************************************************)
\* The state after construction, for a tab group of one of the sizes in
\* tabCounts and a limiter built with one of maxRequests x windowMs.
Init(tabCounts, maxRequests, windowMs) ==
    /\ nTabs \in tabCounts
    /\ active = [i \in TabIndices(nTabs) |-> FALSE]
    /\ contentInit = FALSE
    /\ tabError = FALSE
    /\ selectLog = <<>>
    /\ cmp = UserComponentNew
    /\ view = Render(UserComponentNew)
    /\ nextRef = 1
    /\ intervalOn = FALSE
    /\ userInit = FALSE
    /\ userDestroyed = FALSE
    /\ pendingBad = 0
    /\ pendingObs = <<>>
    /\ lastOp = "constructor"
    /\ lastManual = FALSE
    /\ lastChecked = FALSE
    /\ obsEmitted = "none"
    /\ apiNow = 0
    /\ usersCache = 0
    /\ cacheBorn = <<>>
    /\ apiTimers = {}
    /\ apiLastOp = "constructor"
    /\ apiReturned = 0
    /\ rlMax \in maxRequests
    /\ rlWindow \in windowMs
    /\ rlNow = 0
    /\ requests = <<>>
    /\ allowedLog = <<>>
    /\ rlLast = "none"
    /\ rlResets = 0
    /\ lruBuilt = FALSE
    /\ lruCapacity = 0
    /\ lruCache = <<>>
    /\ lruUsed = [k \in LruKeys |-> 0]
    /\ lruClock = 0
    /\ lruLast = [op |-> "none", key |-> 0, value |-> 0, result |-> 0]
    /\ pollSub = "none"
    /\ pollRetried = 0
    /\ pollInFlight = FALSE
    /\ pollRequests = 0
    /\ pollFailed = 0
    /\ pollPrev = 0
    /\ pollOut = <<>>
    /\ dbBuilt = FALSE
    /\ dbDelay = 0
    /\ dbNow = 0
    /\ dbTimeoutId = 0
    /\ dbTimers = {}
    /\ dbNextId = 1
    /\ dbCalls = <<>>
    /\ dbInvoked = <<>>
    /\ thBuilt = FALSE
    /\ thLimit = 0
    /\ thNow = 0
    /\ inThrottle = FALSE
    /\ thTimers = {}
    /\ thCalls = <<>>
    /\ thExecuted = <<>>
    /\ ttlNow = 0
    /\ ttlCache = [k \in TtlKeys |-> NoItem]
    /\ ttlWritten = [k \in TtlKeys |-> [has |-> FALSE, value |-> 0, s |-> 0, ttl |-> 0]]
    /\ ttlLast = [op |-> "none", key |-> 0, t |-> 0, had |-> FALSE, result |-> 0]
    /\ ttlOps = 0
    /\ todos = SeedTodos
    /\ todoNow = Len(SeedTodos) + 1
    /\ todoLast = [op |-> "none", id |-> 0, found |-> FALSE, error |-> "none"]
    /\ todoOps = 0
    /\ llHead = 0
    /\ llTail = 0
    /\ llLength = 0
    /\ llNodes = <<>>
    /\ cqBuilt = FALSE
    /\ cqCapacity = 0
    /\ cqItems = <<>>
    /\ cqFront = 0
    /\ cqRear = 0
    /\ cqSize = 0
    /\ cqFifo = <<>>
    /\ cqLast = [op |-> "none", item |-> 0, result |-> 0]
    /\ cqOps = 0
    /\ ssState = loadUsers(AppStateNew)
    /\ ssPending = 1
    /\ ssOps = 0

InitTabs == Init(0 .. MaxTabs, {1}, {1})
InitRest == Init({0}, {1}, {1})
InitRate == Init({0}, 1 .. MaxRequests, 1 .. MaxWindow)

SpecTabs == InitTabs /\ [][TabNext]_vars
SpecUser == InitRest /\ [][UserNext]_vars
\* The fetch handlers of the user card with the timer of delay(1500)
\* running: a pipeline in flight is eventually served.
SpecFetch == InitRest /\ [][FetchNext]_vars
                      /\ WF_vars(ObservableDelivers \/ ObservableErrors)
SpecApi  == InitRest /\ [][ApiNext]_vars
SpecRate == InitRate /\ [][RateNext]_vars
SpecLru  == InitRest /\ [][LruNext]_vars
SpecPoll == InitRest /\ [][PollNext]_vars
SpecDebounce == InitRest /\ [][DebounceNext]_vars
SpecThrottle == InitRest /\ [][ThrottleNext]_vars
SpecTtl == InitRest /\ [][TtlNext]_vars
SpecTodo == InitRest /\ [][TodoNext]_vars
SpecLl   == InitRest /\ [][LlNext]_vars
SpecCq   == InitRest /\ [][CqNext]_vars
SpecSs   == InitRest /\ [][SsNext]_vars

(***************************************************************************)
(* Properties of the tab group (SpecTabs).                                 *)
(***************************************************************************)
OnlyActive(i) == [j \in TabIndices(nTabs) |-> j = i]

LastSelected == selectLog[Len(selectLog)]

\* C1: in a group of N >= 1 tabs, once ngAfterContentInit has run, exactly
\* one tab is active after any sequence of selectTab(index) calls, whatever
\* the index.
C1_ExactlyOneActive ==
    (contentInit /\ nTabs >= 1) => Cardinality(ActiveTabs) = 1

\* C2: selectTab(i) with 0 <= i < N leaves tab i active and every other tab
\* inactive, whatever set of tabs was active before; so after a sequence of
\* calls that ends with an in-range one, the active tab is the last selected.
C2_SelectActivatesOnlySelected ==
    /\ \A a \in [TabIndices(nTabs) -> BOOLEAN] : \A i \in TabIndices(nTabs) :
          LET r == selectTab(a, nTabs, i)
          IN  ~r.error /\ r.active = OnlyActive(i)
    /\ (selectLog # <<>> /\ LastSelected \in TabIndices(nTabs))
          => active = OnlyActive(LastSelected)

\* C2's case: the last tab was selected, then the first one.
C2_Witness ==
    /\ nTabs >= 2
    /\ Len(selectLog) >= 2
    /\ selectLog[Len(selectLog) - 1] = nTabs - 1
    /\ LastSelected = 0
    /\ ActiveTabs = {0}

\* C3: ngAfterContentInit on a group whose tabs are all inactive activates
\* tab 0 and no other when N >= 1, and activates nothing and throws nothing
\* when N = 0.
C3_FirstTabActivatedByDefault ==
    /\ ~contentInit => ActiveTabs = {}
    /\ (contentInit /\ selectLog = <<>>) =>
          /\ ~tabError
          /\ ActiveTabs = (IF nTabs >= 1 THEN {0} ELSE {})

\* C3's case: the hook has just run on a group of several tabs.
C3_Witness ==
    /\ contentInit
    /\ selectLog = <<>>
    /\ nTabs >= 2
    /\ active[0]
    /\ ~active[1]

\* C18: in every reachable state of a tab group driven by ngAfterContentInit
\* (once, before any click) and selectTab, for any N >= 0, before or after
\* the hook and for any index, at most one tab is active.
C18_AtMostOneActive ==
    Cardinality(ActiveTabs) <= 1

\* C18's case: tab 0 was active by default and a later tab was selected.
C18_Witness ==
    /\ contentInit
    /\ nTabs >= 2
    /\ selectLog # <<>>
    /\ ActiveTabs = {nTabs - 1}

\* C19: selectTab(index) with an index outside 0..N-1 (negative, >= N, or any
\* index on an empty group) deactivates every tab, activates none and throws
\* nothing.
C19_OutOfRangeDeactivatesAll ==
    /\ \A a \in [TabIndices(nTabs) -> BOOLEAN] :
          \A index \in SelectArgs(nTabs) \ TabIndices(nTabs) :
             LET r == selectTab(a, nTabs, index)
             IN  ~r.error /\ r.active = [j \in TabIndices(nTabs) |-> FALSE]
    /\ (selectLog # <<>> /\ LastSelected \notin TabIndices(nTabs))
          => (ActiveTabs = {} /\ ~tabError)

\* C19's case: a tab was active and selectTab(N) was called.
C19_Witness ==
    /\ nTabs >= 1
    /\ Len(selectLog) >= 2
    /\ selectLog[Len(selectLog) - 1] \in TabIndices(nTabs)
    /\ LastSelected = nTabs
    /\ ActiveTabs = {}

(***************************************************************************)
(* Properties of the user card (SpecUser).                                 *)
(***************************************************************************)
\* C4: the identity of the user object changes on replaceUser and only on
\* replaceUser, which installs a new object named 'New Name'; mutateUser and
\* the interval callback write user.name in place and keep the object.
C4_IdentityChangesOnlyOnReplace ==
    [][ /\ (cmp'.userRef # cmp.userRef) <=> (lastOp' = "replaceUser")
        /\ lastOp' = "replaceUser" => cmp'.userName = NewName
        /\ lastOp' \in {"mutateUser", "interval"} =>
              /\ cmp'.userRef = cmp.userRef
              /\ \E rnd \in Randoms : cmp'.userName = Text("New Name", rnd)
      ]_vars

\* C4's case: after a replacement, the interval wrote the name of the new object.
C4_Witness ==
    /\ lastOp = "interval"
    /\ cmp.userRef = 1
    /\ cmp.userName # NewName

\* C5: under OnPush, the in-place changes of mutateUser and incrementBad,
\* called from the component's own template events, trigger no change
\* detection: after the handler the view still shows the old value.
C5_InPlaceChangeNotDetected ==
    [][ lastOp' \in {"mutateUser", "incrementBad"} =>
            (~lastChecked' /\ view' = view)
      ]_vars

\* C6: under OnPush, replaceUser triggers change detection: after it the
\* view is re-checked and shows the name 'New Name'.
C6_ReplaceIsDetected ==
    lastOp = "replaceUser" =>
        /\ lastChecked
        /\ cmp.userName = NewName
        /\ view.name = NewName

\* C6's case: a second replacement, of an object the interval had renamed.
C6_Witness ==
    /\ lastOp = "replaceUser"
    /\ cmp.userRef = 2
    /\ intervalOn

\* C7: incrementGood increments counter by one and triggers change detection
\* manually (markForCheck or detectChanges is called), unlike incrementBad.
C7_IncrementGoodMarksForCheck ==
    [][ /\ lastOp' = "incrementGood" =>
              (cmp'.counter = cmp.counter + 1 /\ lastManual')
        /\ lastOp' = "incrementBad" =>
              (cmp'.counter = cmp.counter + 1 /\ ~lastManual')
      ]_vars

\* C8: when the promise of fetchDataBad resolves, apiData holds the fetched
\* text and nothing is marked for check: the view keeps what it showed, and
\* its apiData stays so until a step that does trigger change detection.
C8_FetchBadLeavesViewStale ==
    [][ /\ lastOp' = "fetchDataBadThen" =>
              /\ \E stamp \in Stamps : cmp'.apiData = DataFetchedAt(stamp)
              /\ ~lastManual'
              /\ ~lastChecked'
              /\ view' = view
        /\ ~lastChecked' => view'.apiData = view.apiData
        /\ lastChecked' => view'.apiData = cmp'.apiData
      ]_vars

\* C8's case: the promise resolved and the view still shows 'No data'.
C8_Witness ==
    /\ lastOp = "fetchDataBadThen"
    /\ cmp.apiData # NoData
    /\ view.apiData = NoData

\* C20: loading is true in every state in which some fetchDataWithObservable
\* call has started and not yet completed, also when calls overlap.
C20_LoadingWhileInFlight ==
    pendingObs # <<>> => cmp.loading

\* The step taken last served a call of fetchDataWithObservable.
Served == lastOp \in {"fetchDataWithObservableTap", "fetchDataWithObservableCatchError"}

\* What the calls in flight can be when there are some.
InFlight == UNION {[1 .. n -> Stamps] : n \in 1 .. MaxPending}

\* C21: a fetchDataWithObservable call sets loading to true at once and
\* joins the calls in flight; these are served oldest first and by nothing
\* else, and while one is in flight one more is eventually served (if the
\* last step served none, a later one does; if it served one, the calls in
\* flight change again or another handler runs), so that every call is
\* served in the end.  Serving a call writes its
\* response text to apiData and sets loading to false; if the pipeline
\* errors instead, loading is set to false as well and subscribe() is given
\* null in place of the error.
C21_FetchWithObservableCompletes ==
    /\ [][ /\ lastOp' = "fetchDataWithObservable" =>
                 /\ cmp'.loading
                 /\ \E stamp \in Stamps : pendingObs' = Append(pendingObs, stamp)
           /\ lastOp' = "fetchDataWithObservableTap" =>
                 /\ pendingObs # <<>>
                 /\ pendingObs' = Tail(pendingObs)
                 /\ cmp'.apiData = DataApiResponseAt(Head(pendingObs))
                 /\ ~cmp'.loading
                 /\ obsEmitted' = "response"
           /\ lastOp' = "fetchDataWithObservableCatchError" =>
                 /\ pendingObs # <<>>
                 /\ pendingObs' = Tail(pendingObs)
                 /\ ~cmp'.loading
                 /\ obsEmitted' = "null"
           /\ lastOp' \notin {"fetchDataWithObservable", "fetchDataWithObservableTap",
                              "fetchDataWithObservableCatchError"} =>
                 /\ pendingObs' = pendingObs
                 /\ obsEmitted' = "none"
         ]_vars
    /\ (pendingObs # <<>> /\ ~Served) ~> Served
    /\ \A q \in InFlight :
          (pendingObs = q /\ Served) ~> (pendingObs # q \/ ~Served)

\* Every call made has been served, the last one by tap: apiData holds a
\* response text and loading is false.
C21_Witness ==
    /\ lastOp = "fetchDataWithObservableTap"
    /\ pendingObs = <<>>
    /\ obsEmitted = "response"
    /\ \E stamp \in Stamps : cmp.apiData = DataApiResponseAt(stamp)
    /\ ~cmp.loading

\* C22: fetchDataBad sets loading to true and never sets it back: the step
\* in which its promise resolves leaves loading as it was, and the only
\* steps that turn loading from true to false are the completions of
\* fetchDataWithObservable (its tap or its catchError).
C22_FetchBadNeverResetsLoading ==
    [][ /\ lastOp' = "fetchDataBad" => cmp'.loading
        /\ lastOp' = "fetchDataBadThen" => cmp'.loading = cmp.loading
        /\ (cmp.loading /\ ~cmp'.loading) =>
              lastOp' \in {"fetchDataWithObservableTap",
                           "fetchDataWithObservableCatchError"}
      ]_vars

\* Every promise of fetchDataBad has resolved, no fetchDataWithObservable
\* call is in flight, and loading is still true.
C22_Witness ==
    /\ lastOp = "fetchDataBadThen"
    /\ pendingBad = 0
    /\ pendingObs = <<>>
    /\ cmp.loading

\* C23: timers started by the component are cleaned up on destroy: once
\* the user card is destroyed, the interval of ngOnInit no longer fires and
\* user.name is no longer changed.
C23_IntervalStopsOnDestroy ==
    [][ userDestroyed => /\ lastOp' # "interval"
                         /\ cmp'.userName = cmp.userName ]_vars

(***************************************************************************)
(* Properties of ApiService (SpecApi).                                     *)
(***************************************************************************)
\* C9: a users cache built by getUsers stays in place, and is what every
\* later getUsers call returns without building a new pipeline, until
\* 300000 ms after its own creation or a clearCache() call.
C9_CacheKeptFiveMinutes ==
    [][ usersCache # 0 =>
          /\ apiLastOp' = "getUsers" =>
                (apiReturned' = usersCache /\ cacheBorn' = cacheBorn)
          /\ \/ usersCache' = usersCache
             \/ apiLastOp' = "clearCache"
             \/ apiNow' >= cacheBorn[usersCache] + CacheMs
      ]_vars

(***************************************************************************)
(* Properties of RateLimiter (SpecRate).                                   *)
(***************************************************************************)
\* The isAllowed calls that returned true with a timestamp in (t - windowMs, t].
AllowedIn(t) ==
    {i \in DOMAIN allowedLog : allowedLog[i] > t - rlWindow /\ allowedLog[i] <= t}

\* C10: after any sequence of isAllowed calls at non-decreasing times (and no
\* reset), every window (t - windowMs, t] holds at most maxRequests calls
\* that returned true.
C10_AtMostMaxPerWindow ==
    rlResets = 0 =>
        \A t \in 0 .. (rlNow + rlWindow) : Cardinality(AllowedIn(t)) <= rlMax

\* C10's case: a call is refused after earlier windows were used and left.
C10_Witness ==
    /\ rlResets = 0
    /\ rlLast = "denied"
    /\ Len(allowedLog) > rlMax
    /\ Len(requests) = rlMax

(***************************************************************************)
(* Properties of LRUCache (SpecLru).                                       *)
(***************************************************************************)
\* The stored key whose last use (get hit or put) is the oldest.
LeastRecentlyUsed ==
    CHOOSE k \in MapKeys(lruCache) :
        \A j \in MapKeys(lruCache) : lruUsed[k] <= lruUsed[j]

\* C11: put of a new key into a full cache (size = capacity >= 1) evicts
\* exactly the least recently used key, where a get hit and a put make a key
\* the most recently used; every other key keeps its value.
C11_PutEvictsLeastRecentlyUsed ==
    [][ ( /\ lruClock' = lruClock + 1
          /\ lruLast'.op = "put"
          /\ ~MapHas(lruCache, lruLast'.key)
          /\ lruCapacity >= 1
          /\ Len(lruCache) = lruCapacity )
        => /\ MapKeys(lruCache') =
                 (MapKeys(lruCache) \ {LeastRecentlyUsed}) \cup {lruLast'.key}
           /\ MapGet(lruCache', lruLast'.key) = lruLast'.value
           /\ \A k \in MapKeys(lruCache) \ {LeastRecentlyUsed} :
                 MapGet(lruCache', k) = MapGet(lruCache, k)
      ]_vars

\* C11's case: key 3 was put into a full cache of two; the key that was
\* evicted had been used after the key that stayed was first stored.
C11_Witness ==
    /\ lruCapacity = 2
    /\ lruLast.op = "put"
    /\ lruLast.key = 3
    /\ MapKeys(lruCache) = {1, 3}
    /\ lruCache[1].key = 1
    /\ lruUsed[2] = 2
    /\ lruUsed[1] = 3
    /\ lruClock = 4

\* C25: after any sequence of get and put calls on an LRUCache constructed
\* with capacity >= 1, the number of stored entries never exceeds capacity.
C25_SizeNeverExceedsCapacity ==
    (lruBuilt /\ lruCapacity >= 1) => Len(lruCache) <= lruCapacity

\* A put of a new key into a full cache of capacity 1 has just replaced the
\* only entry.
C25_Witness ==
    /\ lruCapacity = 1
    /\ lruLast.op = "put"
    /\ lruClock >= 2
    /\ Len(lruCache) = 1
    /\ lruCache[1].key = lruLast.key
    /\ \E k \in LruKeys \ {lruLast.key} : lruUsed[k] > 0

(***************************************************************************)
(* Properties of pollData (SpecPoll).                                      *)
(***************************************************************************)
\* C12: polling continues on error: when a request of a poll fails, also
\* after the 2 retries are used up, the error is swallowed and the later
\* 5 second polls still issue requests and can still emit data.
C12_PollingContinuesOnError ==
    pollFailed >= 1 => pollSub = "active"

(***************************************************************************)
(* Properties of debounce (SpecDebounce).                                  *)
(***************************************************************************)
\* The invocations of func made for call number i.
InvokedFor(i) == {n \in 1 .. Len(dbInvoked) : dbInvoked[n].call = i}

\* C13: debounce waits for silence.  Every invocation of func is for the
\* most recent call (no call was made in between), happens once at least
\* `delay` ms have passed since that call and carries that call's arguments;
\* no call is invoked twice; a call followed by another call less than
\* `delay` ms later is never invoked; and the last call of a burst is either
\* invoked already or still has its timer armed, so each burst yields
\* exactly one invocation.
C13_DebounceWaitsForSilence ==
    /\ \A n \in 1 .. Len(dbInvoked) :
          LET v == dbInvoked[n]
          IN  /\ v.call = v.calls
              /\ v.t >= dbCalls[v.call].t + dbDelay
              /\ v.args = dbCalls[v.call].args
    /\ \A i \in 1 .. Len(dbCalls) :
          /\ Cardinality(InvokedFor(i)) <= 1
          /\ (i < Len(dbCalls) /\ dbCalls[i + 1].t < dbCalls[i].t + dbDelay)
                => InvokedFor(i) = {}
    /\ dbCalls # <<>> =>
          LET last == Len(dbCalls)
              armed == {x \in dbTimers : x.call = last}
          IN  /\ Cardinality(InvokedFor(last)) + Cardinality(armed) = 1
              /\ \A x \in dbTimers : x.call = last

\* A burst of two calls with different arguments, then silence: func has
\* been invoked once, with the arguments of the second call.
C13_Witness ==
    /\ Len(dbCalls) = 2
    /\ dbCalls[1].args # dbCalls[2].args
    /\ dbCalls[2].t > dbCalls[1].t
    /\ dbCalls[2].t < dbCalls[1].t + dbDelay
    /\ Len(dbInvoked) = 1
    /\ dbInvoked[1].args = dbCalls[2].args

(***************************************************************************)
(* Properties of throttle (SpecThrottle).                                  *)
(***************************************************************************)
\* The executions of func made for call number i.
ExecutedFor(i) == {n \in 1 .. Len(thExecuted) : thExecuted[n].call = i}

\* C14: throttle limits the execution rate.  Two executions of func are at
\* least `limit` ms apart, so no window [t, t + limit) holds more than one;
\* the first call runs immediately; a call made while the flag is unset runs
\* at the time of the call, with its arguments, exactly once; a call made
\* while the flag is set is dropped and is never executed later.
C14_ThrottleLimitsRate ==
    /\ \A n \in 1 .. Len(thExecuted) - 1 :
          thExecuted[n + 1].t >= thExecuted[n].t + thLimit
    /\ thCalls # <<>> => ~thCalls[1].flag
    /\ \A i \in 1 .. Len(thCalls) :
          IF thCalls[i].flag
          THEN ExecutedFor(i) = {}
          ELSE /\ Cardinality(ExecutedFor(i)) = 1
               /\ \A n \in ExecutedFor(i) :
                     /\ thExecuted[n].t = thCalls[i].t
                     /\ thExecuted[n].args = thCalls[i].args

\* A call that ran, a call dropped inside the window, the window over, and
\* a third call that ran: the dropped call has still not been executed.
C14_Witness ==
    /\ Len(thCalls) = 3
    /\ ~thCalls[1].flag
    /\ thCalls[2].flag
    /\ ~thCalls[3].flag
    /\ Len(thExecuted) = 2
    /\ thNow >= thCalls[3].t + thLimit
    /\ ~inThrottle

(***************************************************************************)
(* Properties of CacheWithTTL (SpecTtl).                                   *)
(***************************************************************************)
\* C15: get never returns an expired value.  When the last call was
\* get(key) at time t and the key was last written by set(key, value, ttl)
\* at time s, with no clear() since: t > s + ttl gives undefined and the key
\* is not in the cache afterwards; s <= t <= s + ttl gives the value.
C15_GetNeverReturnsExpired ==
    ttlLast.op = "get" =>
        LET w == ttlWritten[ttlLast.key]
        IN  w.has =>
              /\ ttlLast.t > w.s + w.ttl =>
                    /\ ttlLast.result = Undefined
                    /\ ~ttlCache[ttlLast.key].has
              /\ (w.s <= ttlLast.t /\ ttlLast.t <= w.s + w.ttl) =>
                    ttlLast.result = w.value

\* get(key) found the entry in the Map after its expiry.
C15_Witness ==
    /\ ttlLast.op = "get"
    /\ ttlLast.had
    /\ ttlWritten[ttlLast.key].has
    /\ ttlLast.t > ttlWritten[ttlLast.key].s + ttlWritten[ttlLast.key].ttl
    /\ ttlLast.result = Undefined
    /\ ~ttlCache[ttlLast.key].has

(***************************************************************************)
(* Properties of FakeTodoService (SpecTodo).                               *)
(***************************************************************************)
\* The list holds a todo with this id.
HasTodo(list, id) == \E i \in 1 .. Len(list) : list[i].id = id

\* C16: getTodo, updateTodo and deleteTodo called with an id that is not in
\* todos produce the error 'Todo not found' and leave todos unchanged.
C16_NotFoundLeavesTodos ==
    [][\A id \in TodoIds :
          (/\ todoOps' = todoOps + 1
           /\ todoLast'.op \in {"getTodo", "updateTodo", "deleteTodo"}
           /\ todoLast'.id = id
           /\ ~HasTodo(todos, id))
          => /\ todoLast'.error = "Todo not found"
             /\ todos' = todos]_vars

\* deleteTodo was called with the id of a todo deleted before: the call
\* failed and the two other seeded todos are still there.
C16_Witness ==
    /\ todoOps = 2
    /\ todoLast.op = "deleteTodo"
    /\ ~todoLast.found
    /\ todoLast.error = "Todo not found"
    /\ Len(todos) = 2

\* C17: the ids of the entries in todos are pairwise distinct after any
\* sequence of createTodo, updateTodo and deleteTodo calls.
C17_IdsPairwiseDistinct ==
    \A i, j \in 1 .. Len(todos) : i # j => todos[i].id # todos[j].id

(***************************************************************************)
(* Properties of LinkedList (SpecLl).                                      *)
(***************************************************************************)
\* C24: after any sequence of append, prepend and delete, length is the
\* number of nodes reachable from head, and tail is the last node reachable
\* from head (null when the list is empty).
C24_LengthAndTailMatchChain ==
    LET reach == NodesFrom(llNodes, llHead)
    IN  /\ llLength = Len(reach)
        /\ llTail = IF reach = <<>> THEN 0 ELSE reach[Len(reach)]

(***************************************************************************)
(* Properties of CircularQueue (SpecCq).                                   *)
(***************************************************************************)
\* The `size` items stored from `front` on, wrapping at the capacity.
CqStored(items, front, size, capacity) ==
    [i \in 1 .. size |-> ArrayGet(items, (front + i - 1) % capacity)]

\* C26: CircularQueue is a FIFO queue bounded by capacity.  dequeue returns
\* the oldest item enqueue accepted and that was not returned yet; enqueue
\* accepts an item unless the queue is full; enqueue on a full queue
\* returns false and dequeue on an empty queue returns undefined, both
\* leaving front, rear, size and items as they were; the slots from front
\* on hold the pending items in order, also across the wrap-around; and
\* 0 <= size <= capacity.
C26_BoundedFifo ==
    [][ /\ (cqLast'.op = "enqueue" /\ cqOps' = cqOps + 1) =>
              IF cqSize = cqCapacity
              THEN /\ cqLast'.result = 0
                   /\ UNCHANGED <<cqFront, cqRear, cqSize, cqItems>>
              ELSE /\ cqLast'.result = 1
                   /\ cqSize' = cqSize + 1
        /\ (cqLast'.op = "dequeue" /\ cqOps' = cqOps + 1) =>
              IF cqFifo = <<>>
              THEN /\ cqLast'.result = Undefined
                   /\ UNCHANGED <<cqFront, cqRear, cqSize, cqItems>>
              ELSE /\ cqLast'.result = Head(cqFifo)
                   /\ cqSize' = cqSize - 1
        /\ cqSize' >= 0
        /\ cqSize' <= cqCapacity'
        /\ cqSize' = Len(cqFifo')
        /\ cqCapacity' > 0 => CqStored(cqItems', cqFront', cqSize', cqCapacity') = cqFifo'
      ]_vars

\* Capacity 2, five calls: rear and front have both wrapped to slot 0 and
\* the dequeue made last returned an item.
C26_Witness ==
    /\ cqCapacity = 2
    /\ cqOps = 5
    /\ cqLast.op = "dequeue"
    /\ cqLast.result # Undefined
    /\ cqFront = 0
    /\ cqRear = 1
    /\ cqSize = 1

(***************************************************************************)
(* Properties of StateService (SpecSs).                                    *)
(***************************************************************************)
\* C27: after any sequence of selectUser, addUser, updateUser, deleteUser
\* and loadUsers, selectedUserId is null or the id of a user in users.
C27_SelectedUserPresent ==
    \/ ssState.selectedUserId = 0
    \/ \E i \in DOMAIN ssState.users : ssState.users[i].id = ssState.selectedUserId

====
